---------------------------- MODULE Spec2Model ----------------------------
(***************************************************************************)
(* A model of bert4keras/models.py: the name-addressed layer registry      *)
(* (Transformer.call), the phase-sequenced graph builder                    *)
(* (Transformer.build and the BERT / ALBERT / ALBERT_Unshared / NEZHA      *)
(* phases), the attention-mask extensions (LanguageModel,                  *)
(* UnifiedLanguageModel) and the checkpoint variable mapper                *)
(* (variable_mapping, load_variable, create_variable,                      *)
(* load_weights_from_checkpoint, save_weights_as_checkpoint).              *)
(*                                                                         *)
(* Python objects are modelled by value plus an allocation counter: a      *)
(* layer instance is a record with a unique id, a tensor is a record with  *)
(* a unique id, and "the same object" means "the same id".                 *)
(***************************************************************************)
EXTENDS Integers, Sequences, FiniteSets, TLC

VARIABLES
    self,       \* the Transformer object: its fields, registry and graph
    pc,         \* position of the driver of the running specification
    history,    \* one record per Transformer.call made by an outside caller
    trace,      \* build: one record per phase invocation, in order
    args,       \* build: the arguments build() was called with
    frame,      \* build: its local variables (outputs, i)
    seg,        \* masks: the segment-id input s, one row per sequence
    mask,       \* masks: the tensor the mask function returned
    weights,    \* checkpoints: the model's parameter values, by layer
    files,      \* checkpoints: the checkpoints on disk, by file name
    fresh       \* checkpoints: the parameter values of a second model of
                \* the same spec, built afresh

maskVars == <<seg, mask>>
ckptVars == <<weights, files, fresh>>
vars == <<self, pc, history, trace, args, frame, maskVars, ckptVars>>

\* The variables of the other specifications, where one does not use them
NoMasks == seg = << >> /\ mask = << >>
NoCheckpoints == weights = << >> /\ files = << >> /\ fresh = << >>

---------------------------------------------------------------------------
(* Bounds of the model *)

\* number of Transformer.call operations an outside caller makes
MaxCalls == 3
\* largest num_hidden_layers a configuration descriptor supplies
MaxLayers == 2

---------------------------------------------------------------------------
(* Values *)

\* Python's None, for a tensor-valued slot
NoneT == [id |-> 0, layer |-> "None"]

\* kwargs.get('name') when no name was passed
NoName == "<None>"

\* A call's inputs / a phase's result is either one tensor or a Python list of
\* tensors; the two are kept apart (x versus [x]).
Bare(t) == [list |-> FALSE, items |-> <<t>>]
ListOf(ts) == [list |-> TRUE, items |-> ts]

\* str(i), as used by the '%d' name templates
Digit(i) ==
    CASE i = 0 -> "0" [] i = 1 -> "1" [] i = 2 -> "2" [] i = 3 -> "3"
      [] i = 4 -> "4" [] i = 5 -> "5" [] i = 6 -> "6" [] i = 7 -> "7"
      [] i = 8 -> "8" [] OTHER -> "9"

\* call-time arguments: {} (arguments or {})
NoArguments == [a_mask |-> "absent", p_bias |-> "absent"]

\* the registry of a model constructed with layers=None: layers or {}
EmptyLayers == << >>

\* The name Keras gives a layer constructed without one: the class prefix and
\* a per-prefix counter.  Names passed explicitly follow the repository's own
\* convention ('Embedding-Token', ...) and are never of this form.
AutoName(m, layer) ==
    LET n == Cardinality({k \in DOMAIN m.layers :
                            m.layers[k].kind = layer /\ m.layers[k].auto})
    IN  layer \o "_" \o Digit(n + 1)

\* layer(**kwargs): a new instance, with its resolved name
Construct(m, layer, kwargs) ==
    [id     |-> m.uid + 1,
     kind   |-> layer,
     kwargs |-> kwargs,
     auto   |-> (kwargs.name = NoName),
     name   |-> IF kwargs.name = NoName THEN AutoName(m, layer) ELSE kwargs.name]

\* self.layers[name](inputs, **arguments): the instance is applied to the
\* inputs, which adds one node to the graph and yields a new tensor.
Invoke(m, name, inputs, arguments) ==
    LET out == [id |-> m.tid + 1, layer |-> name]
        node == [layer     |-> name,
                 inst      |-> m.layers[name].id,
                 kind      |-> m.layers[name].kind,
                 inputs    |-> inputs,
                 arguments |-> arguments,
                 out       |-> out,
                 phase     |-> m.phase,
                 index     |-> m.index]
    IN  [self |-> [m EXCEPT !.tid = m.tid + 1, !.nodes = Append(m.nodes, node)],
         out  |-> Bare(out)]

\* Transformer.call with the registry lookup dropped: every call constructs.
call_always_constructs(m, inputs, layer, arguments, kwargs) ==
    IF layer = "Dropout" /\ m.dropout_rate = 0
    THEN [self |-> m, out |-> inputs]
    ELSE LET new == Construct(m, layer, kwargs)
             m1 == [m EXCEPT !.uid = new.id,
                             !.layers = (new.name :> new) @@ m.layers]
         IN  Invoke(m1, new.name, inputs, arguments)

\* Transformer.call without the zero-rate Dropout shortcut.
call_no_shortcut(m, inputs, layer, arguments, kwargs) ==
    LET name == kwargs.name
    IN  IF name \notin DOMAIN m.layers
        THEN LET new == Construct(m, layer, kwargs)
                 m1 == [m EXCEPT !.uid = new.id,
                                 !.layers = (new.name :> new) @@ m.layers]
             IN  Invoke(m1, new.name, inputs, arguments)
        ELSE Invoke(m, name, inputs, arguments)

\* Transformer.call constructing again when the stored instance is of another
\* kind than the one asked for.
call_rebuilds_on_mismatch(m, inputs, layer, arguments, kwargs) ==
    IF layer = "Dropout" /\ m.dropout_rate = 0
    THEN [self |-> m, out |-> inputs]
    ELSE IF kwargs.name \in DOMAIN m.layers /\ m.layers[kwargs.name].kind = layer
         THEN Invoke(m, kwargs.name, inputs, arguments)
         ELSE call_always_constructs(m, inputs, layer, arguments, kwargs)

\* Transformer.call(inputs, layer, arguments, **kwargs)
call(m, inputs, layer, arguments, kwargs) ==
    IF layer = "Dropout" /\ m.dropout_rate = 0
    THEN [self |-> m, out |-> inputs]
    ELSE LET name == kwargs.name
         IN  IF name \notin DOMAIN m.layers
             THEN LET new == Construct(m, layer, kwargs)
                      m1 == [m EXCEPT !.uid = new.id,
                                      !.layers = (new.name :> new) @@ m.layers]
                  IN  Invoke(m1, new.name, inputs, arguments)
             ELSE Invoke(m, name, inputs, arguments)


---------------------------------------------------------------------------
(* The Transformer object *)

\* keep_tokens=None, and a kept-token-id list
NoKeepTokens == [given |-> FALSE, ids |-> << >>]
KeepTokens(ids) == [given |-> TRUE, ids |-> ids]

\* Transformer.__init__ and BERT.__init__, then the fields the mask
\* extensions add (LanguageModel.__init__ / UnifiedLanguageModel.__init__).
\* embedding_size 0 stands for None (both are falsy in "embedding_size or
\* hidden_size").  uid, tid, nodes, phase and index are the allocation
\* counters and the graph under construction.
Transformer_init(cfg) ==
    [cls                 |-> cfg.cls,
     application         |-> cfg.application,
     vocab_size          |-> IF cfg.keep_tokens.given
                             THEN Len(cfg.keep_tokens.ids)
                             ELSE cfg.vocab_size,
     hidden_size         |-> cfg.hidden_size,
     num_hidden_layers   |-> cfg.num_hidden_layers,
     num_attention_heads |-> cfg.num_attention_heads,
     attention_head_size |-> cfg.hidden_size \div cfg.num_attention_heads,
     intermediate_size   |-> cfg.intermediate_size,
     dropout_rate        |-> cfg.dropout_rate,
     hidden_act          |-> cfg.hidden_act,
     embedding_size      |-> IF cfg.embedding_size # 0
                             THEN cfg.embedding_size
                             ELSE cfg.hidden_size,
     keep_tokens         |-> cfg.keep_tokens,
     layers              |-> EmptyLayers,
     max_position        |-> cfg.max_position,
     with_pool           |-> cfg.with_pool,
     with_nsp            |-> cfg.with_nsp,
     with_mlm            |-> IF cfg.application \in {"lm", "unilm"}
                             THEN TRUE       \* self.with_mlm or True
                             ELSE cfg.with_mlm,
     attention_mask      |-> NoneT,
     inputs              |-> << >>,
     outputs             |-> ListOf(<< >>),
     model               |-> [built |-> FALSE, layers |-> {}],
     uid                 |-> 0,
     tid                 |-> 0,
     nodes               |-> << >>,
     mask_calls          |-> << >>,
     phase               |-> "none",
     index               |-> 0]

\* A configuration descriptor as build_transformer_model reads it, with the
\* sizes of a small model.
BaseConfig ==
    [cls                 |-> "bert",
     application         |-> "encoder",
     vocab_size          |-> 3,
     hidden_size         |-> 4,
     num_hidden_layers   |-> 1,
     num_attention_heads |-> 2,
     intermediate_size   |-> 8,
     hidden_act          |-> "gelu",
     dropout_rate        |-> 0,
     embedding_size      |-> 0,
     keep_tokens         |-> NoKeepTokens,
     max_position        |-> 2,
     with_pool           |-> FALSE,
     with_nsp            |-> FALSE,
     with_mlm            |-> FALSE]

\* hidden_dropout_prob, in tenths
DropoutRates == {0, 1}

\* Input(shape=(None,), name=...): an input tensor of the graph
InputTensor(m, name) == [id |-> m.tid + 1, layer |-> name]

---------------------------------------------------------------------------
(* Phase structures *)

\* The conditioning triple [layer_norm_cond, hidden_size, hidden_act]
NoConds == [z |-> NoneT, hidden_units |-> 0, hidden_activation |-> "none"]

\* An element of the list a phase receives or returns: a tensor, or the
\* conditioning triple.
T(t) == [tag |-> "tensor", t |-> t, conds |-> NoConds]
C(c) == [tag |-> "conds", t |-> NoneT, conds |-> c]

\* the tensor a call returned
X(r) == r.out.items[1]

\* Transformer.simplify: drop the None entries, collapse a singleton list
simplify(inputs) ==
    LET kept == SelectSeq(inputs, LAMBDA t : t # NoneT)
    IN  IF Len(kept) = 1 THEN Bare(kept[1]) ELSE ListOf(kept)

\* BERT.prepare_inputs: the token-id and segment-id inputs
prepare_inputs(m) ==
    LET x_in == InputTensor(m, "Input-Token")
        s_in == InputTensor([m EXCEPT !.tid = m.tid + 1], "Input-Segment")
    IN  [self |-> [m EXCEPT !.tid = m.tid + 2], out |-> <<x_in, s_in>>]

---------------------------------------------------------------------------
(* Attention masks of a block *)

\* The name of the Lambda layer each mask extension registers
MaskName(m) ==
    IF m.application = "lm" THEN "Attention-LM-Mask" ELSE "Attention-UniLM-Mask"

\* The mask function each extension hands to its Lambda layer
MaskFunction(m) ==
    IF m.application = "lm" THEN "lm_mask" ELSE "unilm_mask"

\* compute_attention_mask with the "is None" test dropped: the mask layer is
\* called again for every block.
compute_attention_mask_uncached(m, idx) ==
    IF m.application = "encoder"
    THEN [self |-> m, out |-> NoneT]
    ELSE LET r == call(m, Bare(m.inputs[2]), "Lambda", NoArguments,
                       [name |-> MaskName(m), function |-> MaskFunction(m)])
         IN  [self |-> [r.self EXCEPT !.attention_mask = X(r),
                                      !.mask_calls = Append(@, X(r))],
              out  |-> X(r)]

\* Transformer.compute_attention_mask (None) and its overrides in
\* LanguageModel and UnifiedLanguageModel.  mask_calls records what each
\* call returned.
compute_attention_mask(m, idx) ==
    IF m.application = "encoder"
    THEN [self |-> m, out |-> NoneT]
    ELSE IF m.attention_mask = NoneT
         THEN LET r == call(m, Bare(m.inputs[2]), "Lambda", NoArguments,
                            [name |-> MaskName(m), function |-> MaskFunction(m)])
              IN  [self |-> [r.self EXCEPT !.attention_mask = X(r),
                                           !.mask_calls = Append(@, X(r))],
                   out  |-> X(r)]
         ELSE [self |-> [m EXCEPT !.mask_calls = Append(@, m.attention_mask)],
               out  |-> m.attention_mask]

---------------------------------------------------------------------------
(* Phase bodies *)

(* A phase body is a straight line of "v = self.call(inputs=..., layer=...,  *)
(* name=..., ...)" statements over a few local variables.  It is written    *)
(* here as the list of its statements, in source order, and run by Run.     *)

\* the local variables of the phase bodies, all unset
Locals == [v \in {"x", "s", "xi", "z", "p", "mask", "pooled", "mlm"} |-> NoneT]

\* to = self.call(inputs=<form of the locals named by ins>, layer=layer,
\*                arguments=arguments, **kwargs)
\* form: "bare" (one local), "list" ([a, b, ...]), "simplify"
\* (self.simplify([a, b])), "attention" ([x, x, x] followed by the mask, if
\* there is one, and by the other locals named)
Stmt(to, form, ins, layer, arguments, kwargs) ==
    [op |-> "call", to |-> to, form |-> form, ins |-> ins, layer |-> layer,
     arguments |-> arguments, kwargs |-> kwargs]

\* to = from
Assign(to, from) ==
    [op |-> "assign", to |-> to, form |-> "bare", ins |-> <<from>>,
     layer |-> "", arguments |-> NoArguments, kwargs |-> [name |-> NoName]]

\* The value a statement passes as inputs
InputsOf(env, st) ==
    LET ts == [j \in DOMAIN st.ins |-> env[st.ins[j]]]
    IN  CASE st.form = "bare"      -> Bare(ts[1])
          [] st.form = "simplify"  -> simplify(ts)
          [] st.form = "attention" -> ListOf(SelectSeq(ts, LAMBDA t : t # NoneT))
          [] OTHER                 -> ListOf(ts)

\* One statement, on the model and the locals
Exec(m, env, st) ==
    IF st.op = "assign"
    THEN [self |-> m, env |-> [env EXCEPT ![st.to] = env[st.ins[1]]]]
    ELSE LET r == call(m, InputsOf(env, st), st.layer, st.arguments, st.kwargs)
         IN  [self |-> r.self, env |-> [env EXCEPT ![st.to] = r.out.items[1]]]

\* The statements of a phase body in order, from statement k on
RECURSIVE Run(_, _, _, _)
Run(m, env, prog, k) ==
    IF k > Len(prog)
    THEN [self |-> m, env |-> env]
    ELSE LET r == Exec(m, env, prog[k])
         IN  Run(r.self, r.env, prog, k + 1)

---------------------------------------------------------------------------
(* BERT *)

\* LayerNormalization's construction options, shared by every norm call
NormOptions(name, conds) ==
    [name              |-> name,
     conditional       |-> (conds.z # NoneT),
     hidden_units      |-> conds.hidden_units,
     hidden_activation |-> conds.hidden_activation]

\* "if self.embedding_size != self.hidden_size": the Embedding-Mapping call
EmbeddingMapping(m) ==
    IF m.embedding_size # m.hidden_size
    THEN <<Stmt("x", "bare", <<"x">>, "Dense", NoArguments,
                [name |-> "Embedding-Mapping", units |-> m.hidden_size])>>
    ELSE << >>

\* BERT.prepare_embeddings
BERT_prepare_embeddings(m, inputs) ==
    LET layer_norm_conds == inputs[3].conds
        env == [Locals EXCEPT !["x"] = inputs[1].t, !["s"] = inputs[2].t,
                              !["z"] = layer_norm_conds.z]
        body == <<
            Stmt("x", "bare", <<"x">>, "Embedding", NoArguments,
                 [name |-> "Embedding-Token", input_dim |-> m.vocab_size,
                  output_dim |-> m.embedding_size, mask_zero |-> TRUE]),
            Stmt("s", "bare", <<"s">>, "Embedding", NoArguments,
                 [name |-> "Embedding-Segment", input_dim |-> 2,
                  output_dim |-> m.embedding_size]),
            Stmt("x", "list", <<"x", "s">>, "Add", NoArguments,
                 [name |-> "Embedding-Token-Segment"]),
            Stmt("x", "bare", <<"x">>, "PositionEmbedding", NoArguments,
                 [name |-> "Embedding-Position", input_dim |-> m.max_position,
                  output_dim |-> m.embedding_size, merge_mode |-> "add"]),
            Stmt("x", "simplify", <<"x", "z">>, "LayerNormalization", NoArguments,
                 NormOptions("Embedding-Norm", layer_norm_conds)),
            Stmt("x", "bare", <<"x">>, "Dropout", NoArguments,
                 [name |-> "Embedding-Dropout", rate |-> m.dropout_rate])
            >> \o EmbeddingMapping(m)
        r == Run(m, env, body, 1)
    IN  [self |-> r.self, out |-> <<T(r.env["x"]), C(layer_norm_conds)>>]

\* The block Att --> Add --> LN --> FFN --> Add --> LN that
\* BERT.prepare_main_layers, ALBERT.prepare_main_layers and
\* NEZHA.prepare_main_layers each spell out, from "xi, x, arguments = ..." on;
\* they differ in the two layer names, in p_bias and in the attention inputs.
Block(m, attention_name, feed_forward_name, arguments, attention_inputs, conds) ==
    << Assign("xi", "x"),
       Stmt("x", "attention", attention_inputs, "MultiHeadAttention", arguments,
            [name |-> attention_name, heads |-> m.num_attention_heads,
             head_size |-> m.attention_head_size]),
       Stmt("x", "bare", <<"x">>, "Dropout", NoArguments,
            [name |-> attention_name \o "-Dropout", rate |-> m.dropout_rate]),
       Stmt("x", "list", <<"xi", "x">>, "Add", NoArguments,
            [name |-> attention_name \o "-Add"]),
       Stmt("x", "simplify", <<"x", "z">>, "LayerNormalization", NoArguments,
            NormOptions(attention_name \o "-Norm", conds)),
       Assign("xi", "x"),
       Stmt("x", "bare", <<"x">>, "FeedForward", NoArguments,
            [name |-> feed_forward_name, units |-> m.intermediate_size,
             activation |-> m.hidden_act]),
       Stmt("x", "bare", <<"x">>, "Dropout", NoArguments,
            [name |-> feed_forward_name \o "-Dropout", rate |-> m.dropout_rate]),
       Stmt("x", "list", <<"xi", "x">>, "Add", NoArguments,
            [name |-> feed_forward_name \o "-Add"]),
       Stmt("x", "simplify", <<"x", "z">>, "LayerNormalization", NoArguments,
            NormOptions(feed_forward_name \o "-Norm", conds)) >>

\* arguments = {'a_mask': None}; if attention_mask is not None:
\* arguments['a_mask'] = True
AttentionArguments(attention_mask, p_bias) ==
    [a_mask |-> IF attention_mask # NoneT THEN "True" ELSE "None",
     p_bias |-> p_bias]

\* BERT.prepare_main_layers: every layer is named with the block index
BERT_prepare_main_layers(m, inputs, index) ==
    LET layer_norm_conds == inputs[2].conds
        attention_name == "Transformer-" \o Digit(index) \o "-MultiHeadSelfAttention"
        feed_forward_name == "Transformer-" \o Digit(index) \o "-FeedForward"
        am == compute_attention_mask(m, index)
        env == [Locals EXCEPT !["x"] = inputs[1].t, !["z"] = layer_norm_conds.z,
                              !["mask"] = am.out]
        r == Run(am.self, env,
                 Block(m, attention_name, feed_forward_name,
                       AttentionArguments(env["mask"], "absent"),
                       <<"x", "x", "x", "mask">>, layer_norm_conds), 1)
    IN  [self |-> r.self, out |-> <<T(r.env["x"]), C(layer_norm_conds)>>]

\* The output list built by prepare_final_layers collapsed to what it
\* returns, with "one output" always returned inside a list.
collapse_keeps_list(outputs) ==
    IF Len(outputs) = 1 THEN ListOf(<<outputs[1]>>)
    ELSE IF Len(outputs) = 2 THEN ListOf(<<outputs[2]>>)
    ELSE ListOf(SubSeq(outputs, 2, Len(outputs)))

\* The tail of BERT.prepare_final_layers: one output is returned bare, two
\* outputs return the second, more return all but the first.
collapse(outputs) ==
    IF Len(outputs) = 1 THEN Bare(outputs[1])
    ELSE IF Len(outputs) = 2 THEN Bare(outputs[2])
    ELSE ListOf(SubSeq(outputs, 2, Len(outputs)))

\* "if self.with_pool or self.with_nsp": the pooler, and under it "if
\* self.with_nsp": the NSP head
PoolerPart(m) ==
    IF m.with_pool \/ m.with_nsp
    THEN << Stmt("pooled", "bare", <<"x">>, "Lambda", NoArguments,
                 [name |-> "Pooler", function |-> "first_token"]),
            Stmt("pooled", "bare", <<"pooled">>, "Dense", NoArguments,
                 [name |-> "Pooler-Dense", units |-> m.hidden_size,
                  activation |-> IF m.with_pool THEN "tanh" ELSE "False"]) >>
         \o (IF m.with_nsp
             THEN << Stmt("pooled", "bare", <<"pooled">>, "Dense", NoArguments,
                          [name |-> "NSP-Proba", units |-> 2,
                           activation |-> "softmax"]) >>
             ELSE << >>)
    ELSE << >>

\* "if self.with_mlm": the MLM head
MLMPart(m, conds) ==
    IF m.with_mlm
    THEN << Stmt("mlm", "bare", <<"x">>, "Dense", NoArguments,
                 [name |-> "MLM-Dense", units |-> m.embedding_size,
                  activation |-> m.hidden_act]),
            Stmt("mlm", "simplify", <<"mlm", "z">>, "LayerNormalization",
                 NoArguments, NormOptions("MLM-Norm", conds)),
            Stmt("mlm", "bare", <<"mlm">>, "EmbeddingDense", NoArguments,
                 [name |-> "MLM-Proba", embedding_name |-> "Embedding-Token",
                  activation |-> "softmax"]) >>
    ELSE << >>

\* BERT.prepare_final_layers: outputs = [x], then the output of each head
\* that is built, collapsed
BERT_prepare_final_layers(m, inputs) ==
    LET layer_norm_conds == inputs[2].conds
        env == [Locals EXCEPT !["x"] = inputs[1].t, !["z"] = layer_norm_conds.z]
        r == Run(m, env, PoolerPart(m) \o MLMPart(m, layer_norm_conds), 1)
        outputs == <<r.env["x"]>>
                   \o (IF m.with_pool \/ m.with_nsp THEN <<r.env["pooled"]>> ELSE << >>)
                   \o (IF m.with_mlm THEN <<r.env["mlm"]>> ELSE << >>)
    IN  [self |-> r.self, out |-> collapse(outputs)]

---------------------------------------------------------------------------
(* ALBERT *)

\* ALBERT.prepare_main_layers naming its layers with the block index, as BERT
\* does.
ALBERT_prepare_main_layers_indexed(m, inputs, index) ==
    BERT_prepare_main_layers(m, inputs, index)

\* ALBERT.prepare_main_layers: the same block under fixed layer names, its
\* mask asked for with index 0
ALBERT_prepare_main_layers(m, inputs, index) ==
    LET layer_norm_conds == inputs[2].conds
        attention_name == "Transformer-MultiHeadSelfAttention"
        feed_forward_name == "Transformer-FeedForward"
        am == compute_attention_mask(m, 0)
        env == [Locals EXCEPT !["x"] = inputs[1].t, !["z"] = layer_norm_conds.z,
                              !["mask"] = am.out]
        r == Run(am.self, env,
                 Block(m, attention_name, feed_forward_name,
                       AttentionArguments(env["mask"], "absent"),
                       <<"x", "x", "x", "mask">>, layer_norm_conds), 1)
    IN  [self |-> r.self, out |-> <<T(r.env["x"]), C(layer_norm_conds)>>]

---------------------------------------------------------------------------
(* NEZHA *)

\* the size of the relative-position table: 2 * 64 + 1
RelativePositions == 129

\* NEZHA.prepare_embeddings: token + segment embeddings, and the
\* relative-position embedding prepared for the attention calls
NEZHA_prepare_embeddings(m, inputs) ==
    LET layer_norm_conds == inputs[3].conds
        env == [Locals EXCEPT !["x"] = inputs[1].t, !["s"] = inputs[2].t,
                              !["z"] = layer_norm_conds.z]
        body == <<
            Stmt("x", "bare", <<"x">>, "Embedding", NoArguments,
                 [name |-> "Embedding-Token", input_dim |-> m.vocab_size,
                  output_dim |-> m.embedding_size, mask_zero |-> TRUE]),
            Stmt("s", "bare", <<"s">>, "Embedding", NoArguments,
                 [name |-> "Embedding-Segment", input_dim |-> 2,
                  output_dim |-> m.embedding_size]),
            Stmt("x", "list", <<"x", "s">>, "Add", NoArguments,
                 [name |-> "Embedding-Token-Segment"]),
            Stmt("x", "simplify", <<"x", "z">>, "LayerNormalization", NoArguments,
                 NormOptions("Embedding-Norm", layer_norm_conds)),
            Stmt("x", "bare", <<"x">>, "Dropout", NoArguments,
                 [name |-> "Embedding-Dropout", rate |-> m.dropout_rate])
            >> \o EmbeddingMapping(m) \o <<
            Stmt("p", "list", <<"x", "x">>, "RelativePositionEmbedding",
                 NoArguments,
                 [name |-> "Embedding-Relative-Position",
                  input_dim |-> RelativePositions,
                  output_dim |-> m.attention_head_size,
                  embeddings_initializer |-> "sinusoidal",
                  trainable |-> FALSE]) >>
        r == Run(m, env, body, 1)
    IN  [self |-> r.self,
         out  |-> <<T(r.env["x"]), T(r.env["p"]), C(layer_norm_conds)>>]

\* NEZHA.prepare_main_layers returning the relative-position tensor from the
\* last block too.
NEZHA_prepare_main_layers_keeps_p(m, inputs, index) ==
    LET layer_norm_conds == inputs[3].conds
        attention_name == "Transformer-" \o Digit(index) \o "-MultiHeadSelfAttention"
        feed_forward_name == "Transformer-" \o Digit(index) \o "-FeedForward"
        am == compute_attention_mask(m, index)
        env == [Locals EXCEPT !["x"] = inputs[1].t, !["p"] = inputs[2].t,
                              !["z"] = layer_norm_conds.z, !["mask"] = am.out]
        r == Run(am.self, env,
                 Block(m, attention_name, feed_forward_name,
                       AttentionArguments(env["mask"], "typical_relative"),
                       <<"x", "x", "x", "mask", "p">>, layer_norm_conds), 1)
    IN  [self |-> r.self,
         out  |-> <<T(r.env["x"]), T(r.env["p"]), C(layer_norm_conds)>>]

\* NEZHA.prepare_main_layers: the block with the relative-position tensor as
\* the last attention input; the last block drops it from what it returns
NEZHA_prepare_main_layers(m, inputs, index) ==
    LET layer_norm_conds == inputs[3].conds
        attention_name == "Transformer-" \o Digit(index) \o "-MultiHeadSelfAttention"
        feed_forward_name == "Transformer-" \o Digit(index) \o "-FeedForward"
        am == compute_attention_mask(m, index)
        env == [Locals EXCEPT !["x"] = inputs[1].t, !["p"] = inputs[2].t,
                              !["z"] = layer_norm_conds.z, !["mask"] = am.out]
        r == Run(am.self, env,
                 Block(m, attention_name, feed_forward_name,
                       AttentionArguments(env["mask"], "typical_relative"),
                       <<"x", "x", "x", "mask", "p">>, layer_norm_conds), 1)
    IN  [self |-> r.self,
         out  |-> IF index + 1 = m.num_hidden_layers
                  THEN <<T(r.env["x"]), C(layer_norm_conds)>>
                  ELSE <<T(r.env["x"]), T(r.env["p"]), C(layer_norm_conds)>>]

---------------------------------------------------------------------------
(* Transformer.build *)

\* The phase overrides of the model's class
prepare_embeddings(m, inputs) ==
    IF m.cls = "nezha"
    THEN NEZHA_prepare_embeddings(m, inputs)
    ELSE BERT_prepare_embeddings(m, inputs)

prepare_main_layers(m, inputs, index) ==
    CASE m.cls = "albert" -> ALBERT_prepare_main_layers(m, inputs, index)
      [] m.cls = "nezha"  -> NEZHA_prepare_main_layers(m, inputs, index)
      [] OTHER            -> BERT_prepare_main_layers(m, inputs, index)

prepare_final_layers(m, inputs) == BERT_prepare_final_layers(m, inputs)

\* How many elements the phase's first statement unpacks its inputs into
\* ("x, s, layer_norm_conds = inputs"); another length raises ValueError.
Unpacked(m, phase) ==
    CASE phase = "prepare_embeddings"   -> 3
      [] phase = "prepare_main_layers"  -> IF m.cls = "nezha" THEN 3 ELSE 2
      [] OTHER                          -> 2

\* build() not running
NoBuildArgs ==
    [layer_norm_cond             |-> NoneT,
     layer_norm_cond_hidden_size |-> 0,
     layer_norm_cond_hidden_act  |-> "None",
     additional_input_layers     |-> << >>]
NoFrame == [outputs |-> << >>, i |-> 0, final |-> ListOf(<< >>)]

\* A condition vector created by the caller and passed both as
\* layer_norm_cond and as additional_input_layers
ConditionInput == [id |-> -1, layer |-> "Input-Condition"]

\* "for i in range(self.num_hidden_layers)" leaving the loop one block early
loop_next_skips_last(m, i) ==
    IF i + 1 < m.num_hidden_layers
    THEN "prepare_main_layers"
    ELSE "prepare_final_layers"

\* "for i in range(self.num_hidden_layers)": the phase that runs when the
\* loop variable would take the value i
loop_next(m, i) ==
    IF i < m.num_hidden_layers
    THEN "prepare_main_layers"
    ELSE "prepare_final_layers"

\* The names of the layers of keras.models.Model(inputs, outputs): the input
\* layers, and every layer on a path from some input to some output.  needed
\* is the set of tensors known to lead to an output; the nodes are visited
\* from the last one created to the first.
RECURSIVE GraphLayers(_, _, _)
GraphLayers(nodes, k, needed) ==
    IF k = 0 THEN {t.layer : t \in {u \in needed : u.layer \in {"Input-Token",
                                   "Input-Segment", "Input-Condition"}}}
    ELSE IF nodes[k].out \in needed
         THEN {nodes[k].layer}
              \cup GraphLayers(nodes, k - 1,
                     needed \cup {nodes[k].inputs.items[j] :
                                     j \in DOMAIN nodes[k].inputs.items})
         ELSE GraphLayers(nodes, k - 1, needed)

Model(m, inputs, outputs) ==
    [built  |-> TRUE,
     layers |-> {t.layer : t \in {inputs[j] : j \in DOMAIN inputs}}
                \cup GraphLayers(m.nodes, Len(m.nodes),
                        {outputs.items[j] : j \in DOMAIN outputs.items})]

\* build, lines 50-63: the inputs, the copy of them the phases work on, and
\* the conditioning triple appended to the copy
build_prepare_inputs(b) ==
    LET r == prepare_inputs([b.self EXCEPT !.phase = "prepare_inputs"])
        outputs == [j \in DOMAIN r.out |-> T(r.out[j])]
        layer_norm_conds ==
            [z                 |-> b.args.layer_norm_cond,
             hidden_units      |-> b.args.layer_norm_cond_hidden_size,
             hidden_activation |->
                 IF b.args.layer_norm_cond_hidden_act = "None"
                 THEN "linear"
                 ELSE b.args.layer_norm_cond_hidden_act]
    IN  [b EXCEPT
            !.self  = [r.self EXCEPT
                          !.inputs = r.out \o b.args.additional_input_layers],
            !.frame = [b.frame EXCEPT
                          !.outputs = Append(outputs, C(layer_norm_conds))],
            !.trace = Append(b.trace,
                         [phase |-> "prepare_inputs", index |-> 0,
                          received |-> << >>, returned |-> outputs]),
            !.pc    = "prepare_embeddings"]

\* build, line 65
build_prepare_embeddings(b) ==
    LET r == prepare_embeddings(
                 [b.self EXCEPT !.phase = "prepare_embeddings"], b.frame.outputs)
    IN  [b EXCEPT
            !.self  = r.self,
            !.frame = [b.frame EXCEPT !.outputs = r.out, !.i = 0],
            !.trace = Append(b.trace,
                         [phase |-> "prepare_embeddings", index |-> 0,
                          received |-> b.frame.outputs, returned |-> r.out]),
            !.pc    = loop_next(b.self, 0)]

\* build, lines 67-68: one pass of the loop
build_prepare_main_layers(b) ==
    LET r == prepare_main_layers(
                 [b.self EXCEPT !.phase = "prepare_main_layers",
                                !.index = b.frame.i],
                 b.frame.outputs, b.frame.i)
    IN  [b EXCEPT
            !.self  = r.self,
            !.frame = [b.frame EXCEPT !.outputs = r.out, !.i = b.frame.i + 1],
            !.trace = Append(b.trace,
                         [phase |-> "prepare_main_layers", index |-> b.frame.i,
                          received |-> b.frame.outputs, returned |-> r.out]),
            !.pc    = loop_next(b.self, b.frame.i + 1)]

\* build, lines 70-71
build_prepare_final_layers(b) ==
    LET r == prepare_final_layers(
                 [b.self EXCEPT !.phase = "prepare_final_layers", !.index = 0],
                 b.frame.outputs)
    IN  [b EXCEPT
            !.self  = [r.self EXCEPT !.outputs = r.out],
            !.frame = [b.frame EXCEPT !.final = r.out],
            !.trace = Append(b.trace,
                         [phase |-> "prepare_final_layers", index |-> 0,
                          received |-> b.frame.outputs, returned |-> r.out]),
            !.pc    = "Model"]

\* build, line 73: the graph is finalized
build_Model(b) ==
    [b EXCEPT
        !.self  = [b.self EXCEPT
                      !.phase = "Model",
                      !.model = Model(b.self, b.self.inputs, b.self.outputs)],
        !.trace = Append(b.trace,
                     [phase |-> "Model", index |-> 0,
                      received |-> b.self.outputs, returned |-> b.self.outputs]),
        !.pc    = "done"]

\* A phase cannot unpack what it is handed: build() raises
CannotUnpack(b) ==
    /\ b.pc \in {"prepare_embeddings", "prepare_main_layers",
                 "prepare_final_layers"}
    /\ Len(b.frame.outputs) # Unpacked(b.self, b.pc)

\* The next step of build()
build_step(b) ==
    IF CannotUnpack(b) THEN [b EXCEPT !.pc = "error"]
    ELSE CASE b.pc = "prepare_inputs"       -> build_prepare_inputs(b)
           [] b.pc = "prepare_embeddings"   -> build_prepare_embeddings(b)
           [] b.pc = "prepare_main_layers"  -> build_prepare_main_layers(b)
           [] b.pc = "prepare_final_layers" -> build_prepare_final_layers(b)
           [] b.pc = "Model"                -> build_Model(b)
           [] OTHER                         -> b

\* build() from a position to its end
RECURSIVE build(_)
build(b) ==
    IF b.pc \in {"done", "error"} THEN b ELSE build(build_step(b))

\* The build in progress, and its state taken as the next state
Building == [self |-> self, args |-> args, frame |-> frame, trace |-> trace,
             pc |-> pc]
Becomes(b) ==
    /\ self' = b.self
    /\ frame' = b.frame
    /\ trace' = b.trace
    /\ pc' = b.pc
    /\ UNCHANGED <<args, history, maskVars, ckptVars>>

Build_prepare_inputs ==
    /\ pc = "prepare_inputs"
    /\ Becomes(build_prepare_inputs(Building))

Build_prepare_embeddings ==
    /\ pc = "prepare_embeddings"
    /\ ~CannotUnpack(Building)
    /\ Becomes(build_prepare_embeddings(Building))

Build_prepare_main_layers ==
    /\ pc = "prepare_main_layers"
    /\ ~CannotUnpack(Building)
    /\ Becomes(build_prepare_main_layers(Building))

Build_prepare_final_layers ==
    /\ pc = "prepare_final_layers"
    /\ ~CannotUnpack(Building)
    /\ Becomes(build_prepare_final_layers(Building))

Build_Model ==
    /\ pc = "Model"
    /\ Becomes(build_Model(Building))

Build_raise ==
    /\ CannotUnpack(Building)
    /\ Becomes([Building EXCEPT !.pc = "error"])

Classes == {"bert", "albert", "albert_unshared", "nezha"}
Applications == {"encoder", "lm", "unilm"}
\* embedding_size of the descriptor: absent, or smaller than hidden_size
EmbeddingSizes == {0, 2}

\* The model object build_transformer_model constructs, about to be built
Init ==
    /\ \E cls \in Classes, application \in Applications,
          with_pool \in BOOLEAN, with_nsp \in BOOLEAN, with_mlm \in BOOLEAN,
          n \in 0..MaxLayers, rate \in DropoutRates, e \in EmbeddingSizes :
          self = Transformer_init(
                    [BaseConfig EXCEPT !.cls = cls,
                                       !.application = application,
                                       !.with_pool = with_pool,
                                       !.with_nsp = with_nsp,
                                       !.with_mlm = with_mlm,
                                       !.num_hidden_layers = n,
                                       !.dropout_rate = rate,
                                       !.embedding_size = e])
    /\ \E conditional \in BOOLEAN :
          args = IF conditional
                 THEN [layer_norm_cond             |-> ConditionInput,
                       layer_norm_cond_hidden_size |-> 2,
                       layer_norm_cond_hidden_act  |-> "None",
                       additional_input_layers     |-> <<ConditionInput>>]
                 ELSE NoBuildArgs
    /\ pc = "prepare_inputs"
    /\ history = << >>
    /\ trace = << >>
    /\ frame = NoFrame
    /\ NoMasks
    /\ NoCheckpoints

Next ==
    \/ Build_prepare_inputs
    \/ Build_prepare_embeddings
    \/ Build_prepare_main_layers
    \/ Build_prepare_final_layers
    \/ Build_Model
    \/ Build_raise

Spec == Init /\ [][Next]_vars

---------------------------------------------------------------------------
(* Properties of a build *)

\* The phases of a build of a model with n blocks, in order
RECURSIVE MainPhases(_)
MainPhases(n) ==
    IF n = 0 THEN << >>
    ELSE Append(MainPhases(n - 1), <<"prepare_main_layers", n - 1>>)

ExpectedPhases(n) ==
    <<<<"prepare_inputs", 0>>, <<"prepare_embeddings", 0>>>>
    \o MainPhases(n)
    \o <<<<"prepare_final_layers", 0>>, <<"Model", 0>>>>

\* The phases ran so far are the first ones of the fixed order, and a build
\* that is done ran them all
PhasesInOrder ==
    /\ Len(trace) <= self.num_hidden_layers + 4
    /\ \A k \in DOMAIN trace :
          <<trace[k].phase, trace[k].index>>
              = ExpectedPhases(self.num_hidden_layers)[k]
    /\ pc = "done" => Len(trace) = self.num_hidden_layers + 4

\* C3 as stated: the phases run in the fixed order, each index once, and
\* every phase receives exactly what the phase before it returned.
C3_Original ==
    /\ PhasesInOrder
    /\ \A k \in 2..Len(trace) : trace[k].received = trace[k - 1].returned

\* C3, amended: the phases run in the fixed order prepare_inputs,
\* prepare_embeddings, prepare_main_layers 0..N-1, prepare_final_layers,
\* finalization, none revisited or skipped; prepare_embeddings receives the
\* list prepare_inputs returned with the conditioning triple appended to it,
\* and every later phase receives exactly what the phase before it returned.
C3_PhaseOrder ==
    /\ PhasesInOrder
    /\ \A k \in 2..Len(trace) :
          IF trace[k].phase = "prepare_embeddings"
          THEN /\ Len(trace[k].received) = Len(trace[k - 1].returned) + 1
               /\ SubSeq(trace[k].received, 1, Len(trace[k - 1].returned))
                     = trace[k - 1].returned
               /\ trace[k].received[Len(trace[k].received)].tag = "conds"
          ELSE trace[k].received = trace[k - 1].returned

\* A build of a model with two blocks is done.
C3_Witness ==
    /\ pc = "done"
    /\ self.num_hidden_layers = 2
    /\ Len(trace) = 6
    /\ trace[4].index = 1

\* The nodes of the graph made by layers of one kind
NodesOf(kind) == {k \in DOMAIN self.nodes : self.nodes[k].kind = kind}
\* The registry's entries of one kind
EntriesOf(kind) == {n \in DOMAIN self.layers : self.layers[n].kind = kind}

\* C4: after a build with N >= 2 blocks, an ALBERT model has one
\* self-attention and one feed-forward layer, each applied by all N blocks;
\* a BERT model has N of each, and no two blocks apply the same one.
C4_SharingByName ==
    (pc = "done" /\ self.num_hidden_layers >= 2) =>
        \A kind \in {"MultiHeadAttention", "FeedForward"} :
            /\ Cardinality(NodesOf(kind)) = self.num_hidden_layers
            /\ \A i \in 0..(self.num_hidden_layers - 1) :
                  \E k \in NodesOf(kind) : self.nodes[k].index = i
            /\ self.cls = "albert" =>
                  /\ Cardinality(EntriesOf(kind)) = 1
                  /\ \A j, k \in NodesOf(kind) :
                        self.nodes[j].inst = self.nodes[k].inst
            /\ self.cls = "bert" =>
                  /\ Cardinality(EntriesOf(kind)) = self.num_hidden_layers
                  /\ \A j, k \in NodesOf(kind) :
                        self.nodes[j].index # self.nodes[k].index
                            => self.nodes[j].inst # self.nodes[k].inst

\* An ALBERT model with two blocks is built: two attention nodes of two
\* block indices exist.
C4_Witness ==
    /\ pc = "done"
    /\ self.cls = "albert"
    /\ self.num_hidden_layers = 2
    /\ \E j, k \in NodesOf("MultiHeadAttention") :
          self.nodes[j].index = 0 /\ self.nodes[k].index = 1

\* The sequence output prepare_final_layers was handed
SequenceOutput == trace[Len(trace)].received[1].t

\* The heads asked for
HeadsRequested ==
    (IF self.with_pool THEN 1 ELSE 0) + (IF self.with_nsp THEN 1 ELSE 0)
        + (IF self.with_mlm THEN 1 ELSE 0)

\* C5: prepare_final_layers returns the bare sequence output when no head is
\* requested; the one head's output, not in a list, when exactly one is
\* requested; the list [NSP output, MLM output] when with_nsp and with_mlm
\* are both requested; and never the sequence output once a head is
\* requested.
C5_FinalOutputs ==
    (pc = "Model") =>
        LET out == self.outputs
        IN  /\ HeadsRequested = 0 => out = Bare(SequenceOutput)
            /\ HeadsRequested = 1 =>
                  /\ ~out.list
                  /\ Len(out.items) = 1
                  /\ out.items[1].layer =
                        (IF self.with_pool THEN "Pooler-Dense"
                         ELSE IF self.with_nsp THEN "NSP-Proba"
                         ELSE "MLM-Proba")
            /\ (self.with_nsp /\ self.with_mlm) =>
                  /\ out.list
                  /\ Len(out.items) = 2
                  /\ out.items[1].layer = "NSP-Proba"
                  /\ out.items[2].layer = "MLM-Proba"
            /\ HeadsRequested > 0 =>
                  \A j \in DOMAIN out.items : out.items[j] # SequenceOutput

\* prepare_final_layers has returned for a model with only the pooler
\* requested.
C5_Witness ==
    /\ pc = "Model"
    /\ self.with_pool /\ ~self.with_nsp /\ ~self.with_mlm
    /\ self.num_hidden_layers = 1
    /\ self.outputs.items[1].layer = "Pooler-Dense"

\* C8: in an LM or UniLM model every compute_attention_mask call returned
\* the mask the first call computed, the cache holds that mask, the mask
\* layer was registered and applied once, and every attention call received
\* that one mask.
C8_MaskComputedOnce ==
    (self.application \in {"lm", "unilm"}) =>
        /\ Len(self.mask_calls) = 0 => self.attention_mask = NoneT
        /\ Len(self.mask_calls) > 0 =>
              /\ self.attention_mask # NoneT
              /\ self.attention_mask = self.mask_calls[1]
        /\ \A k \in DOMAIN self.mask_calls :
              self.mask_calls[k] = self.mask_calls[1]
        /\ Cardinality({k \in DOMAIN self.nodes :
                          self.nodes[k].layer = MaskName(self)}) <= 1
        /\ Cardinality(EntriesOf("Lambda")
                         \ {"Pooler"}) <= 1
        /\ \A k \in NodesOf("MultiHeadAttention") :
              /\ self.nodes[k].arguments.a_mask = "True"
              /\ self.nodes[k].inputs.items[4] = self.attention_mask

\* An LM model with two blocks is built: compute_attention_mask was called
\* twice.
C8_Witness ==
    /\ pc = "done"
    /\ self.application = "lm"
    /\ self.num_hidden_layers = 2
    /\ Len(self.mask_calls) = 2
    /\ self.attention_mask # NoneT

---------------------------------------------------------------------------
(* SpecCall: an outside caller drives Transformer.call on one model *)

CallKinds == {"Dropout", "Dense"}
\* names a caller passes: two of its own, the name the first unnamed Dense
\* layer gets, and none
CallNames == {"Layer-A", "Layer-B", AutoName(Transformer_init(BaseConfig), "Dense"), NoName}
CallUnits == {1, 2}

InitCall ==
    /\ \E r \in DropoutRates :
          self = Transformer_init([BaseConfig EXCEPT !.dropout_rate = r])
    /\ pc = "call"
    /\ history = << >>
    /\ trace = << >>
    /\ args = NoBuildArgs
    /\ frame = NoFrame
    /\ NoMasks
    /\ NoCheckpoints

\* x = transformer.call(inputs=x, layer=layer, name=name, units=units); the
\* first call is applied to an input tensor, each later one to the tensor
\* the call before it returned.
CallOp(layer, name, units) ==
    /\ pc = "call"
    /\ Len(history) < MaxCalls
    /\ LET inputs == IF history = << >>
                     THEN Bare([id |-> 0, layer |-> "Input"])
                     ELSE history[Len(history)].out
           kwargs == [name |-> name, units |-> units]
           r == call(self, inputs, layer, NoArguments, kwargs)
           invoked == Len(r.self.nodes) > Len(self.nodes)
       IN  /\ self' = r.self
           /\ history' = Append(history,
                 [layer       |-> layer,
                  kwargs      |-> kwargs,
                  inputs      |-> inputs,
                  out         |-> r.out,
                  constructed |-> r.self.uid > self.uid,
                  inst        |-> IF invoked
                                  THEN r.self.nodes[Len(r.self.nodes)].inst
                                  ELSE 0,
                  before      |-> self.layers,
                  after       |-> r.self.layers])
    /\ UNCHANGED <<pc, trace, args, frame, maskVars, ckptVars>>

NextCall == \E layer \in CallKinds, name \in CallNames, units \in CallUnits :
                CallOp(layer, name, units)

SpecCall == InitCall /\ [][NextCall]_vars

\* The calls of the history that invoked a layer under a name they passed.
NamedInvocations ==
    {i \in DOMAIN history :
        history[i].inst # 0 /\ history[i].kwargs.name # NoName}

StoredUnnamed(n) ==
    {k \in DOMAIN history :
        /\ history[k].kwargs.name = NoName
        /\ history[k].constructed
        /\ n \in DOMAIN history[k].after
        /\ history[k].after[n].id = history[k].inst}

C2_ZeroDropoutNoOp ==
    \A i \in DOMAIN history :
        (history[i].layer = "Dropout" /\ self.dropout_rate = 0)
            => /\ history[i].out = history[i].inputs
               /\ ~history[i].constructed
               /\ history[i].inst = 0
               /\ history[i].after = history[i].before

\* A zero-rate Dropout call was made under a name not in the registry, after
\* another call had produced a tensor and registered a layer.
C2_Witness ==
    \E i \in DOMAIN history :
        /\ history[i].layer = "Dropout" /\ self.dropout_rate = 0
        /\ history[i].kwargs.name \notin DOMAIN history[i].after
        /\ history[i].kwargs.name # NoName
        /\ history[i].before # EmptyLayers
        /\ history[i].inputs.items[1].id # 0

\* the calls of the history that return their inputs at once
ZeroRateDropout(i) == history[i].layer = "Dropout" /\ self.dropout_rate = 0

PhaseEntries(phase) == {k \in DOMAIN trace : trace[k].phase = phase}

\* C18: in a NEZHA build with N >= 1 blocks the relative-position tensor is
\* created once, in prepare_embeddings; it is the relative-position input
\* (the last input, under p_bias "typical_relative") of the attention call
\* of every block; the last block returns [sequence tensor, conditioning
\* triple] without it, which is what prepare_final_layers receives, and the
\* build does not raise.
C18_RelativePositionShared ==
    (self.cls = "nezha" /\ self.num_hidden_layers >= 1) =>
        /\ pc # "error"
        /\ Cardinality(NodesOf("RelativePositionEmbedding")) <= 1
        /\ \A k \in NodesOf("RelativePositionEmbedding") :
               self.nodes[k].phase = "prepare_embeddings"
        /\ PhaseEntries("prepare_embeddings") # {}
               => Cardinality(NodesOf("RelativePositionEmbedding")) = 1
        /\ \A k \in NodesOf("MultiHeadAttention") :
               /\ self.nodes[k].arguments.p_bias = "typical_relative"
               /\ \E q \in NodesOf("RelativePositionEmbedding") :
                      self.nodes[k].inputs.items[Len(self.nodes[k].inputs.items)]
                          = self.nodes[q].out
        /\ \A k \in PhaseEntries("prepare_main_layers") :
               /\ \E j \in NodesOf("MultiHeadAttention") :
                      self.nodes[j].index = trace[k].index
               /\ Len(trace[k].returned) =
                      IF trace[k].index + 1 = self.num_hidden_layers THEN 2 ELSE 3
        /\ \A k \in PhaseEntries("prepare_final_layers") :
               /\ Len(trace[k].received) = 2
               /\ trace[k].received[1].tag = "tensor"
               /\ trace[k].received[2].tag = "conds"
               /\ \A q \in NodesOf("RelativePositionEmbedding") :
                      trace[k].received[1].t # self.nodes[q].out

\* A NEZHA model with two blocks is built: both attention calls took the
\* relative-position tensor and prepare_final_layers has run.
C18_Witness ==
    /\ pc = "done"
    /\ self.cls = "nezha"
    /\ self.num_hidden_layers = 2
    /\ Cardinality(NodesOf("MultiHeadAttention")) = 2
    /\ PhaseEntries("prepare_final_layers") # {}

---------------------------------------------------------------------------
(* SpecFactory: build_transformer_model, from its arguments to the built    *)
(* model.  checkpoint_path is None: no weights are loaded.                  *)

\* before "transformer = MODEL(...)": no object exists
NoObject == [cls |-> "<unbound>"]

\* the model= and application= arguments callers pass: the known names in
\* several spellings, and names the function does not know
ModelNames == {"bert", "BERT", "Albert", "albert_unshared", "NEZHA", "gpt2",
               "Roberta"}
ApplicationNames == {"encoder", "LM", "unilm", "UniLM", "seq2seq", "Classifier"}

\* str.lower() on the names above
lower(s) ==
    CASE s = "BERT"       -> "bert"
      [] s = "Albert"     -> "albert"
      [] s = "NEZHA"      -> "nezha"
      [] s = "Roberta"    -> "roberta"
      [] s = "LM"         -> "lm"
      [] s = "UniLM"      -> "unilm"
      [] s = "Classifier" -> "classifier"
      [] OTHER            -> s

\* models.get(model, BERT): an unknown name falls back to BERT
models_get_default(model) ==
    IF model \in Classes
    THEN [ok |-> TRUE, cls |-> model]
    ELSE [ok |-> TRUE, cls |-> "bert"]

\* "MODEL = models[model]": the class under the name, a KeyError for a name
\* that is not a key of the dict
models_getitem(model) ==
    IF model \in Classes
    THEN [ok |-> TRUE, cls |-> model]
    ELSE [ok |-> FALSE, cls |-> "<unbound>"]

\* "if application == 'lm': ... elif application == 'unilm': ...": the mask
\* extension wrapped around MODEL; there is no else branch, so any other
\* application leaves MODEL as it is
extend(application) ==
    IF application = "lm" THEN "lm"
    ELSE IF application = "unilm" THEN "unilm"
    ELSE "encoder"

\* hidden_size of the descriptor, num_attention_heads being 2
HiddenSizes == {BaseConfig.hidden_size, BaseConfig.hidden_size + 1}

\* A call of build_transformer_model about to run.  A hidden_size that the
\* head count does not divide comes with no blocks: what Keras does with
\* the block's residual Add of unequal widths is not in this file.
InitFactory ==
    /\ \E model \in ModelNames, application \in ApplicationNames,
          hidden_size \in HiddenSizes, n \in 0..MaxLayers, with_mlm \in BOOLEAN :
          /\ hidden_size % BaseConfig.num_attention_heads = 0 \/ n = 0
          /\ history = << [model       |-> model,
                           application |-> application,
                           config      |-> [BaseConfig EXCEPT
                                               !.hidden_size = hidden_size,
                                               !.num_hidden_layers = n,
                                               !.with_mlm = with_mlm]] >>
    /\ self = NoObject
    /\ pc = "build_transformer_model"
    /\ args = NoBuildArgs
    /\ trace = << >>
    /\ frame = NoFrame
    /\ NoMasks
    /\ NoCheckpoints

\* "MODEL = models[model]" raises KeyError
Factory_raise ==
    /\ pc = "build_transformer_model"
    /\ ~models_getitem(lower(history[1].model)).ok
    /\ pc' = "KeyError"
    /\ UNCHANGED <<self, history, trace, args, frame, maskVars, ckptVars>>

\* "MODEL = models[model]", the extension by application, and
\* "transformer = MODEL(...)"
Factory_construct ==
    /\ pc = "build_transformer_model"
    /\ models_getitem(lower(history[1].model)).ok
    /\ self' = Transformer_init(
                  [history[1].config EXCEPT
                      !.cls = models_getitem(lower(history[1].model)).cls,
                      !.application = extend(lower(history[1].application))])
    /\ pc' = "prepare_inputs"
    /\ UNCHANGED <<history, trace, args, frame, maskVars, ckptVars>>

NextFactory ==
    \/ Factory_raise
    \/ Factory_construct
    \/ Build_prepare_inputs
    \/ Build_prepare_embeddings
    \/ Build_prepare_main_layers
    \/ Build_prepare_final_layers
    \/ Build_Model
    \/ Build_raise

SpecFactory == InitFactory /\ [][NextFactory]_vars

\* C16: a call whose model name, lower-cased, is none of bert, albert,
\* albert_unshared and nezha raises KeyError with no object constructed and
\* no phase run; a call that constructs an object constructs the class under
\* the lower-cased name.
C16_UnknownModelRaises ==
    /\ lower(history[1].model) \notin Classes =>
          /\ pc \in {"build_transformer_model", "KeyError"}
          /\ self = NoObject
          /\ trace = << >>
    /\ self # NoObject => self.cls = lower(history[1].model)
    /\ pc = "KeyError" => lower(history[1].model) \notin Classes

\* The call with model='Roberta' has raised KeyError.
C16_Witness ==
    /\ pc = "KeyError"
    /\ history[1].model = "Roberta"
    /\ self = NoObject
    /\ trace = << >>

\* C14 as stated: a call whose application, lower-cased, is none of encoder,
\* lm and unilm constructs no object and runs no phase.
C14_UnknownApplicationFails ==
    lower(history[1].application) \notin Applications =>
        /\ self = NoObject
        /\ trace = << >>

\* C15 as stated: every constructed object has attention_head_size *
\* num_attention_heads = hidden_size.
C15_HeadSizeExact ==
    self # NoObject =>
        self.attention_head_size * self.num_attention_heads = self.hidden_size

---------------------------------------------------------------------------
(* The mask functions, on tensor values *)

\* the largest batch and the longest sequence fed to a mask function
MaxBatch == 2
MaxSeqLen == 3

\* the index tuples of a tensor of the given shape (0-based, as in Python)
Indices(shape) ==
    {idx \in [1..Len(shape) -> 0..(MaxBatch + MaxSeqLen)] :
        \A k \in 1..Len(shape) : idx[k] < shape[k]}

\* K.shape(s)[axis]
Dim(x, axis) == x.shape[axis + 1]

\* K.ones(shape)
ones(shape) == [shape |-> shape, at |-> [idx \in Indices(shape) |-> 1]]

\* band_part keeping the upper triangle instead of the lower one
band_part_swapped(input, num_lower, num_upper) ==
    [shape |-> input.shape,
     at    |-> [idx \in Indices(input.shape) |->
               IF /\ (num_upper < 0 \/ idx[Len(idx) - 1] - idx[Len(idx)] <= num_upper)
                  /\ (num_lower < 0 \/ idx[Len(idx)] - idx[Len(idx) - 1] <= num_lower)
               THEN input.at[idx] ELSE 0]]

\* tf.linalg.band_part(input, num_lower, num_upper): entry (m, n) of each
\* innermost matrix is kept when (num_lower < 0 or m - n <= num_lower) and
\* (num_upper < 0 or n - m <= num_upper), and zeroed otherwise.
band_part(input, num_lower, num_upper) ==
    [shape |-> input.shape,
     at    |-> [idx \in Indices(input.shape) |->
               IF /\ (num_lower < 0 \/ idx[Len(idx) - 1] - idx[Len(idx)] <= num_lower)
                  /\ (num_upper < 0 \/ idx[Len(idx)] - idx[Len(idx) - 1] <= num_upper)
               THEN input.at[idx] ELSE 0]]

\* the shape K.expand_dims gives
ExpandedShape(shape, axis) ==
    SubSeq(shape, 1, axis) \o <<1>> \o SubSeq(shape, axis + 1, Len(shape))

\* K.expand_dims(x, axis): a dimension of size 1 inserted at position axis
expand_dims(x, axis) ==
    [shape |-> ExpandedShape(x.shape, axis),
     at    |-> [idx \in Indices(ExpandedShape(x.shape, axis)) |->
                   x.at[SubSeq(idx, 1, axis) \o SubSeq(idx, axis + 2, Len(idx))]]]

\* the entry of x an index of the broadcast result reads: dimensions of size
\* 1 are stretched
Broadcast(x, idx) ==
    x.at[[k \in 1..Len(idx) |-> IF x.shape[k] = 1 THEN 0 ELSE idx[k]]]

\* the shape two tensors of equal rank broadcast to
BroadcastShape(a, b) ==
    [k \in 1..Len(a.shape) |-> IF a.shape[k] = 1 THEN b.shape[k] ELSE a.shape[k]]

\* c - x for a Python number c
rsub(c, x) ==
    [shape |-> x.shape, at |-> [idx \in Indices(x.shape) |-> c - x.at[idx]]]

\* a * b
mul(a, b) ==
    [shape |-> BroadcastShape(a, b),
     at    |-> [idx \in Indices(BroadcastShape(a, b)) |->
                   Broadcast(a, idx) * Broadcast(b, idx)]]

\* a + b
add(a, b) ==
    [shape |-> BroadcastShape(a, b),
     at    |-> [idx \in Indices(BroadcastShape(a, b)) |->
                   Broadcast(a, idx) + Broadcast(b, idx)]]

\* LanguageModel.compute_attention_mask.lm_mask
lm_mask(s) ==
    band_part(ones(<<1, 1, Dim(s, 1), Dim(s, 1)>>), -1, 0)

\* unilm_mask with the causal term gated by the column's segment instead of
\* the row's
unilm_mask_column_gated(s) ==
    add(mul(rsub(1, expand_dims(expand_dims(s, 1), 3)),
            rsub(1, expand_dims(expand_dims(s, 1), 2))),
        mul(expand_dims(expand_dims(s, 1), 2), lm_mask(s)))

\* UnifiedLanguageModel.compute_attention_mask.unilm_mask:
\* (1 - s_ex13) * (1 - s_ex12) + s_ex13 * a_mask
unilm_mask(s) ==
    add(mul(rsub(1, expand_dims(expand_dims(s, 1), 3)),
            rsub(1, expand_dims(expand_dims(s, 1), 2))),
        mul(expand_dims(expand_dims(s, 1), 3), lm_mask(s)))

\* the values a batch of segment ids can take
SegmentInputs ==
    UNION {[Indices(<<b, l>>) -> {0, 1}] : b \in 1..MaxBatch, l \in 1..MaxSeqLen}

\* A model with a mask extension and a batch fed to its segment input
InitMask ==
    /\ \E application \in {"lm", "unilm"} :
           self = Transformer_init([BaseConfig EXCEPT !.application = application])
    /\ \E b \in 1..MaxBatch, l \in 1..MaxSeqLen :
           \E at \in [Indices(<<b, l>>) -> {0, 1}] :
               seg = [shape |-> <<b, l>>, at |-> at]
    /\ mask = << >>
    /\ pc = "Lambda"
    /\ history = << >>
    /\ trace = << >>
    /\ args = NoBuildArgs
    /\ frame = NoFrame
    /\ NoCheckpoints

\* the Lambda layer named Attention-LM-Mask evaluates its function
Lambda_lm_mask ==
    /\ pc = "Lambda"
    /\ MaskFunction(self) = "lm_mask"
    /\ mask' = lm_mask(seg)
    /\ pc' = "masked"
    /\ UNCHANGED <<self, seg, history, trace, args, frame, ckptVars>>

\* the Lambda layer named Attention-UniLM-Mask evaluates its function
Lambda_unilm_mask ==
    /\ pc = "Lambda"
    /\ MaskFunction(self) = "unilm_mask"
    /\ mask' = unilm_mask(seg)
    /\ pc' = "masked"
    /\ UNCHANGED <<self, seg, history, trace, args, frame, ckptVars>>

NextMask ==
    \/ Lambda_lm_mask
    \/ Lambda_unilm_mask

SpecMask == InitMask /\ [][NextMask]_vars

\* the positions of the fed sequence
Positions == 0..(Dim(seg, 1) - 1)

\* the rows of the fed batch
Batch == 0..(Dim(seg, 0) - 1)

\* C6 as stated: a cell is 1 when its row or its column is a segment-0
\* position, and otherwise 1 exactly when the column is not after the row.
C6_Original ==
    (pc = "masked" /\ self.application = "unilm") =>
        \A b \in Batch : \A i, j \in Positions :
            mask.at[<<b, 0, i, j>>] =
                IF seg.at[<<b, i>>] = 0 \/ seg.at[<<b, j>>] = 0 THEN 1
                ELSE IF j <= i THEN 1 ELSE 0

\* C6: for every segment vector s over {0,1} and all positions i (row) and j
\* (column), the Unified-Language-Model mask has mask[i][j] = 1 exactly when
\* s[i] = 0 and s[j] = 0, or s[i] = 1 and j <= i; every other cell is 0.
\* The mask has one L x L matrix per batch row.
C6_UniLMMask ==
    (pc = "masked" /\ self.application = "unilm") =>
        /\ mask.shape = <<Dim(seg, 0), 1, Dim(seg, 1), Dim(seg, 1)>>
        /\ \A b \in Batch : \A i, j \in Positions :
               mask.at[<<b, 0, i, j>>] =
                   IF \/ seg.at[<<b, i>>] = 0 /\ seg.at[<<b, j>>] = 0
                      \/ seg.at[<<b, i>>] = 1 /\ j <= i
                   THEN 1 ELSE 0

\* The UniLM mask was computed for a sequence in which a segment-0 row meets
\* a segment-1 column, a segment-1 row meets a later segment-0 column, and a
\* segment-1 row meets an earlier segment-1 column.
C6_Witness ==
    /\ pc = "masked" /\ self.application = "unilm"
    /\ \E b \in Batch : \E i, j, k \in Positions :
           /\ i < j /\ j < k
           /\ seg.at[<<b, i>>] = 1 /\ seg.at[<<b, j>>] = 0 /\ seg.at[<<b, k>>] = 1
           /\ mask.at[<<b, 0, j, k>>] = 0
           /\ mask.at[<<b, 0, i, j>>] = 0
           /\ mask.at[<<b, 0, k, i>>] = 1

\* C7: for every sequence length L and all positions i, j of 0..L-1 the
\* Language-Model mask has mask[i][j] = 1 if j <= i and 0 otherwise, whatever
\* the values of the segment input.
C7_LMMask ==
    (pc = "masked" /\ self.application = "lm") =>
        /\ mask.shape = <<1, 1, Dim(seg, 1), Dim(seg, 1)>>
        /\ \A i, j \in Positions :
               mask.at[<<0, 0, i, j>>] = IF j <= i THEN 1 ELSE 0

\* The LM mask was computed for a sequence of at least two positions whose
\* segment ids are not all equal.
C7_Witness ==
    /\ pc = "masked" /\ self.application = "lm"
    /\ \E b \in Batch : \E i, j \in Positions :
           /\ i < j
           /\ seg.at[<<b, i>>] # seg.at[<<b, j>>]
           /\ mask.at[<<0, 0, i, j>>] = 0
           /\ mask.at[<<0, 0, j, i>>] = 1

---------------------------------------------------------------------------
(* Weights and checkpoints *)

(* A weight value is a vector (a sequence of numbers) or a matrix (a       *)
(* sequence of rows).  A checkpoint is a function from variable names to    *)
(* values.                                                                  *)

\* the rows of the word-embedding matrix of the published checkpoint: the
\* vocab_size of the configuration descriptor that comes with it
CheckpointVocab == BaseConfig.vocab_size

\* a value of the given shape whose entries are all different and carry tag
Fill(shape, tag) ==
    IF Len(shape) = 1
    THEN [c \in 1..shape[1] |-> tag * 100 + c]
    ELSE [r \in 1..shape[1] |-> [c \in 1..shape[2] |-> tag * 100 + r * 10 + c]]

\* value.T of a matrix
Transpose(value) ==
    [c \in 1..Len(value[1]) |-> [r \in 1..Len(value) |-> value[r][c]]]

\* the shapes of layer.trainable_weights, in order, for a registered layer
TrainableWeights(m, layer) ==
    CASE layer.kind \in {"Embedding", "PositionEmbedding"} ->
            << <<layer.kwargs.input_dim, layer.kwargs.output_dim>> >>
      [] layer.kind = "LayerNormalization" ->
            IF layer.name \in {"Embedding-Norm", "MLM-Norm"}
            THEN << <<m.embedding_size>>, <<m.embedding_size>> >>
            ELSE << <<m.hidden_size>>, <<m.hidden_size>> >>
      [] layer.kind = "Dense" ->
            << <<IF layer.name = "Embedding-Mapping"
                 THEN m.embedding_size ELSE m.hidden_size,
                 layer.kwargs.units>>,
               <<layer.kwargs.units>> >>
      [] layer.kind = "MultiHeadAttention" ->
            << <<m.hidden_size, layer.kwargs.heads * layer.kwargs.head_size>>,
               <<layer.kwargs.heads * layer.kwargs.head_size>>,
               <<m.hidden_size, layer.kwargs.heads * layer.kwargs.head_size>>,
               <<layer.kwargs.heads * layer.kwargs.head_size>>,
               <<m.hidden_size, layer.kwargs.heads * layer.kwargs.head_size>>,
               <<layer.kwargs.heads * layer.kwargs.head_size>>,
               <<layer.kwargs.heads * layer.kwargs.head_size, m.hidden_size>>,
               <<m.hidden_size>> >>
      [] layer.kind = "FeedForward" ->
            << <<m.hidden_size, layer.kwargs.units>>, <<layer.kwargs.units>>,
               <<layer.kwargs.units, m.hidden_size>>, <<m.hidden_size>> >>
      [] layer.kind = "EmbeddingDense" -> << <<m.vocab_size>> >>
      [] OTHER -> << >>

\* the layers of self.model that are layer instances of the registry
ModelLayers(m) == m.model.layers \cap DOMAIN m.layers

\* The weights of a built model as its initializers leave them: every weight
\* gets values of its own, and another seed gives other values.
InitialWeights(m, seed) ==
    [name \in ModelLayers(m) |->
        [k \in 1..Len(TrainableWeights(m, m.layers[name])) |->
            Fill(TrainableWeights(m, m.layers[name])[k],
                 seed * 1000 + m.layers[name].id * 10 + k)]]

(* A mapping is a Python dict from layer names to lists of variable names,  *)
(* kept here as the sequence of its items in insertion order.               *)

\* one item of a mapping
Item(layer, variables) == [layer |-> layer, variables |-> variables]

\* mapping[key] = variables: an existing key keeps its place, a new one goes
\* last
Put(mapping, item) ==
    IF \E i \in DOMAIN mapping : mapping[i].layer = item.layer
    THEN [i \in DOMAIN mapping |->
             IF mapping[i].layer = item.layer THEN item ELSE mapping[i]]
    ELSE Append(mapping, item)

\* mapping.update(other), for the items of other from the k-th on
RECURSIVE update(_, _, _)
update(mapping, other, k) ==
    IF k > Len(other) THEN mapping
    ELSE update(Put(mapping, other[k]), other, k + 1)

\* a mapping returned as it was written, without the filter on layer_names
InModel_keeps_all(m, mapping) == mapping

\* {k: v for k, v in mapping.items() if k in layer_names}
InModel(m, mapping) ==
    SelectSeq(mapping, LAMBDA item : item.layer \in m.model.layers)

\* Transformer.variable_mapping
Transformer_variable_mapping(m) == << >>

\* BERT.variable_mapping: the items every model has
BERT_mapping_heads ==
    << Item("Embedding-Token", <<"bert/embeddings/word_embeddings">>),
       Item("Embedding-Segment", <<"bert/embeddings/token_type_embeddings">>),
       Item("Embedding-Position", <<"bert/embeddings/position_embeddings">>),
       Item("Embedding-Norm", <<"bert/embeddings/LayerNorm/beta",
                                "bert/embeddings/LayerNorm/gamma">>),
       Item("Embedding-Mapping",
            <<"bert/encoder/embedding_hidden_mapping_in/kernel",
              "bert/encoder/embedding_hidden_mapping_in/bias">>),
       Item("Pooler-Dense", <<"bert/pooler/dense/kernel",
                              "bert/pooler/dense/bias">>),
       Item("NSP-Proba", <<"cls/seq_relationship/output_weights",
                           "cls/seq_relationship/output_bias">>),
       Item("MLM-Dense", <<"cls/predictions/transform/dense/kernel",
                           "cls/predictions/transform/dense/bias">>),
       Item("MLM-Norm", <<"cls/predictions/transform/LayerNorm/beta",
                          "cls/predictions/transform/LayerNorm/gamma">>),
       Item("MLM-Proba", <<"cls/predictions/output_bias">>) >>

\* BERT.variable_mapping: the items of block i
BERT_mapping_block(i) ==
    << Item("Transformer-" \o Digit(i) \o "-MultiHeadSelfAttention",
            [k \in 1..8 |->
                "bert/encoder/layer_" \o Digit(i) \o "/" \o
                <<"attention/self/query/kernel", "attention/self/query/bias",
                  "attention/self/key/kernel", "attention/self/key/bias",
                  "attention/self/value/kernel", "attention/self/value/bias",
                  "attention/output/dense/kernel",
                  "attention/output/dense/bias">>[k]]),
       Item("Transformer-" \o Digit(i) \o "-MultiHeadSelfAttention-Norm",
            [k \in 1..2 |->
                "bert/encoder/layer_" \o Digit(i) \o "/" \o
                <<"attention/output/LayerNorm/beta",
                  "attention/output/LayerNorm/gamma">>[k]]),
       Item("Transformer-" \o Digit(i) \o "-FeedForward",
            [k \in 1..4 |->
                "bert/encoder/layer_" \o Digit(i) \o "/" \o
                <<"intermediate/dense/kernel", "intermediate/dense/bias",
                  "output/dense/kernel", "output/dense/bias">>[k]]),
       Item("Transformer-" \o Digit(i) \o "-FeedForward-Norm",
            [k \in 1..2 |->
                "bert/encoder/layer_" \o Digit(i) \o "/" \o
                <<"output/LayerNorm/beta", "output/LayerNorm/gamma">>[k]]) >>

\* "for i in range(self.num_hidden_layers): mapping.update(...)", from block
\* i on
RECURSIVE BERT_mapping_blocks(_, _, _)
BERT_mapping_blocks(m, mapping, i) ==
    IF i >= m.num_hidden_layers THEN mapping
    ELSE BERT_mapping_blocks(m, update(mapping, BERT_mapping_block(i), 1), i + 1)

\* BERT.variable_mapping
BERT_variable_mapping(m) ==
    InModel(m, BERT_mapping_blocks(m, BERT_mapping_heads, 0))

\* the four items ALBERT.variable_mapping and ALBERT_Unshared.variable_mapping
\* write for a block whose layers carry the given names; prefix is
\* 'bert/encoder/transformer/group_0/inner_group_0/'
ALBERT_mapping_block(attention_name, feed_forward_name) ==
    << Item(attention_name,
            [k \in 1..8 |->
                "bert/encoder/transformer/group_0/inner_group_0/" \o
                <<"attention_1/self/query/kernel", "attention_1/self/query/bias",
                  "attention_1/self/key/kernel", "attention_1/self/key/bias",
                  "attention_1/self/value/kernel", "attention_1/self/value/bias",
                  "attention_1/output/dense/kernel",
                  "attention_1/output/dense/bias">>[k]]),
       Item(attention_name \o "-Norm",
            [k \in 1..2 |->
                "bert/encoder/transformer/group_0/inner_group_0/" \o
                <<"LayerNorm/beta", "LayerNorm/gamma">>[k]]),
       Item(feed_forward_name,
            [k \in 1..4 |->
                "bert/encoder/transformer/group_0/inner_group_0/" \o
                <<"ffn_1/intermediate/dense/kernel",
                  "ffn_1/intermediate/dense/bias",
                  "ffn_1/intermediate/output/dense/kernel",
                  "ffn_1/intermediate/output/dense/bias">>[k]]),
       Item(feed_forward_name \o "-Norm",
            [k \in 1..2 |->
                "bert/encoder/transformer/group_0/inner_group_0/" \o
                <<"LayerNorm_1/beta", "LayerNorm_1/gamma">>[k]]) >>

\* ALBERT.variable_mapping
ALBERT_variable_mapping(m) ==
    InModel(m, update(BERT_variable_mapping(m),
                      ALBERT_mapping_block("Transformer-MultiHeadSelfAttention",
                                           "Transformer-FeedForward"), 1))

\* ALBERT_Unshared.variable_mapping: "for i in range(self.num_hidden_layers):
\* mapping.update(...)", from block i on
RECURSIVE ALBERT_Unshared_mapping_blocks(_, _, _)
ALBERT_Unshared_mapping_blocks(m, mapping, i) ==
    IF i >= m.num_hidden_layers THEN mapping
    ELSE ALBERT_Unshared_mapping_blocks(m,
            update(mapping,
                   ALBERT_mapping_block(
                       "Transformer-" \o Digit(i) \o "-MultiHeadSelfAttention",
                       "Transformer-" \o Digit(i) \o "-FeedForward"), 1),
            i + 1)

\* ALBERT_Unshared without an override: the mapping BERT gives
ALBERT_Unshared_variable_mapping_inherited(m) == BERT_variable_mapping(m)

\* ALBERT_Unshared.variable_mapping
ALBERT_Unshared_variable_mapping(m) ==
    InModel(m, ALBERT_Unshared_mapping_blocks(m, BERT_variable_mapping(m), 0))

\* self.variable_mapping()
variable_mapping(m) ==
    CASE m.cls = "albert" -> ALBERT_variable_mapping(m)
      [] m.cls = "albert_unshared" -> ALBERT_Unshared_variable_mapping(m)
      [] OTHER -> BERT_variable_mapping(m)

\* the outcome of reading a variable: a value, or an exception
Loaded(value) == [ok |-> TRUE, value |-> value]
Raised == [ok |-> FALSE, value |-> << >>]

\* Transformer.load_variable: tf.train.load_variable raises for a name the
\* checkpoint does not hold
Transformer_load_variable(checkpoint, name) ==
    IF name \in DOMAIN checkpoint THEN Loaded(checkpoint[name]) ELSE Raised

\* variable[self.keep_tokens]: the rows (entries of a vector) at the given
\* 0-based ids, an IndexError for an id past the end
Subset(variable, ids) ==
    IF \A r \in DOMAIN ids : ids[r] < Len(variable)
    THEN Loaded([r \in DOMAIN ids |-> variable[ids[r] + 1]])
    ELSE Raised

\* BERT.load_variable without the row subsetting
load_variable_whole(m, checkpoint, name) ==
    IF name \notin DOMAIN checkpoint THEN Raised
    ELSE IF name = "cls/seq_relationship/output_weights"
         THEN Loaded(Transpose(checkpoint[name]))
         ELSE Loaded(checkpoint[name])

\* BERT.load_variable (BERT, ALBERT, ALBERT_Unshared and NEZHA all use it)
load_variable(m, checkpoint, name) ==
    IF ~Transformer_load_variable(checkpoint, name).ok THEN Raised
    ELSE IF name \in {"bert/embeddings/word_embeddings",
                      "cls/predictions/output_bias"}
         THEN IF ~m.keep_tokens.given
              THEN Transformer_load_variable(checkpoint, name)
              ELSE Subset(Transformer_load_variable(checkpoint, name).value,
                          m.keep_tokens.ids)
         ELSE IF name = "cls/seq_relationship/output_weights"
              THEN Loaded(Transpose(Transformer_load_variable(checkpoint, name).value))
              ELSE Transformer_load_variable(checkpoint, name)

\* the item of a mapping for a layer
ItemOf(mapping, layer) ==
    mapping[CHOOSE i \in DOMAIN mapping : mapping[i].layer = layer]

\* zip(weights, values) and zip(variables, values): the number of pairs
Zipped(item, w) ==
    IF Len(item.variables) < Len(w[item.layer])
    THEN Len(item.variables) ELSE Len(w[item.layer])

\* mapping=None
NoMapping == << >>

\* load_weights_from_checkpoint setting the weights of each layer as soon as
\* its values are read: the layers before the first one that raises keep
\* the values read for them.
load_weights_layer_by_layer(m, w, checkpoint, given) ==
    LET mapping == IF given # NoMapping THEN given ELSE variable_mapping(m)
        Fails(i) == \/ mapping[i].layer \notin m.model.layers
                    \/ \E k \in DOMAIN mapping[i].variables :
                          ~load_variable(m, checkpoint, mapping[i].variables[k]).ok
        Reached(layer) == \E i \in DOMAIN mapping :
                              /\ mapping[i].layer = layer
                              /\ \A j \in 1..i : ~Fails(j)
    IN  [ok |-> \A i \in DOMAIN mapping : ~Fails(i),
         weights |->
            [layer \in DOMAIN w |->
                IF Reached(layer)
                THEN [k \in DOMAIN w[layer] |->
                         IF k <= Zipped(ItemOf(mapping, layer), w)
                         THEN load_variable(m, checkpoint,
                                  ItemOf(mapping, layer).variables[k]).value
                         ELSE w[layer][k]]
                ELSE w[layer]]]

\* Transformer.load_weights_from_checkpoint on a model whose weights are w.
\* "mapping or self.variable_mapping()": a mapping that is None or empty is
\* replaced.  get_layer raises for a layer the model does not have and
\* load_variable for a variable it cannot read, both inside the loop;
\* K.batch_set_value runs after the loop, so a call that raises leaves the
\* weights as they were.
load_weights_from_checkpoint(m, w, checkpoint, given) ==
    LET mapping == IF given # NoMapping THEN given ELSE variable_mapping(m)
    IN  IF \E i \in DOMAIN mapping :
              \/ mapping[i].layer \notin m.model.layers
              \/ \E k \in DOMAIN mapping[i].variables :
                    ~load_variable(m, checkpoint, mapping[i].variables[k]).ok
        THEN [ok |-> FALSE, weights |-> w]
        ELSE [ok |-> TRUE,
              weights |->
                [layer \in DOMAIN w |->
                    IF \E i \in DOMAIN mapping : mapping[i].layer = layer
                    THEN [k \in DOMAIN w[layer] |->
                             IF k <= Zipped(ItemOf(mapping, layer), w)
                             THEN load_variable(m, checkpoint,
                                      ItemOf(mapping, layer).variables[k]).value
                             ELSE w[layer][k]]
                    ELSE w[layer]]]

\* BERT.create_variable: the tf.Variable asked for, the NSP kernel transposed
create_variable(name, value) ==
    [name  |-> name,
     value |-> IF name = "cls/seq_relationship/output_weights"
               THEN Transpose(value) ELSE value]

\* The loops of save_weights_as_checkpoint from item i on: the variables
\* created, in order of creation.
RECURSIVE created(_, _, _)
created(mapping, w, i) ==
    IF i > Len(mapping) THEN << >>
    ELSE [k \in 1..Zipped(mapping[i], w) |->
             create_variable(mapping[i].variables[k], w[mapping[i].layer][k])]
         \o created(mapping, w, i + 1)

\* The name the p-th created variable has in the graph: the name asked for
\* when no earlier variable asked for it, else that name with _1, _2, ...
\* for the second, third, ... variable asking for it.
unique_name(variables, p) ==
    IF \A q \in 1..(p - 1) : variables[q].name # variables[p].name
    THEN variables[p].name
    ELSE variables[p].name \o "_" \o
         Digit(Cardinality({q \in 1..(p - 1) :
                               variables[q].name = variables[p].name}))

\* saver.save: every variable of the graph under its name in the graph
Saver_save(variables) ==
    LET named == [p \in DOMAIN variables |-> unique_name(variables, p)]
    IN  [name \in {named[p] : p \in DOMAIN variables} |->
            variables[CHOOSE p \in DOMAIN variables : named[p] = name].value]

\* Transformer.save_weights_as_checkpoint: the checkpoint written
save_weights_as_checkpoint(m, w) ==
    Saver_save(created(variable_mapping(m), w, 1))

---------------------------------------------------------------------------
(* Loading and saving a built model *)

\* the longest kept-token-id list enumerated in full
MaxKeep == 2

\* The shape the published checkpoint gives the k-th variable of an item: the
\* shape of the layer's weight in a model of the full vocabulary, the NSP
\* kernel stored transposed.
PublishedShape(m, item, k) ==
    CASE item.variables[k] = "bert/embeddings/word_embeddings" ->
            <<CheckpointVocab, m.embedding_size>>
      [] item.variables[k] = "cls/predictions/output_bias" ->
            <<CheckpointVocab>>
      [] item.variables[k] = "cls/seq_relationship/output_weights" ->
            <<2, m.hidden_size>>
      [] OTHER -> TrainableWeights(m, m.layers[item.layer])[k]

\* The variables a mapping names, from item i on, each with the values the
\* published checkpoint has for it
RECURSIVE published(_, _, _)
published(m, mapping, i) ==
    IF i > Len(mapping) THEN << >>
    ELSE [k \in DOMAIN mapping[i].variables |->
             [name  |-> mapping[i].variables[k],
              value |-> Fill(PublishedShape(m, mapping[i], k), 9000 + i * 10 + k)]]
         \o published(m, mapping, i + 1)

\* a checkpoint holding each of the named variables once
Checkpoint(variables) ==
    [name \in {variables[p].name : p \in DOMAIN variables} |->
        variables[CHOOSE p \in DOMAIN variables : variables[p].name = name].value]

\* the checkpoint_path handed to build_transformer_model: the variables the
\* mapping names for the layers the model has
Published(m) ==
    Checkpoint(published(m, SelectSeq(variable_mapping(m),
                                      LAMBDA item : item.layer \in DOMAIN m.layers), 1))

\* keep_tokens: None, every list of up to MaxKeep valid ids, and a list
\* longer than the vocabulary
KeepTokenLists ==
    {NoKeepTokens, KeepTokens(<<1, 1, 0, 2>>)}
    \cup {KeepTokens(ids) :
            ids \in UNION {[1..k -> 0..(CheckpointVocab - 1)] : k \in 1..MaxKeep}}

\* transformer.build(...) run on a new object
Built(cfg) ==
    build([self |-> Transformer_init(cfg), args |-> NoBuildArgs,
           frame |-> NoFrame, trace |-> << >>, pc |-> "prepare_inputs"]).self

\* the configuration of a small model with the given choices
CkptConfig(cls, with_pool, with_nsp, with_mlm, n, e, keep_tokens) ==
    [BaseConfig EXCEPT !.cls = cls,
                       !.with_pool = with_pool,
                       !.with_nsp = with_nsp,
                       !.with_mlm = with_mlm,
                       !.num_hidden_layers = n,
                       !.hidden_size = 3,
                       !.num_attention_heads = 1,
                       !.intermediate_size = 2,
                       !.embedding_size = e,
                       !.keep_tokens = keep_tokens]

\* A built model with its initial weights, and the published checkpoint.
\* keep_tokens reaches only the rows of Embedding-Token and of the MLM bias,
\* so the lists are tried on the models of one block with an
\* Embedding-Mapping layer, and the other choices without a list.
InitCkpt ==
    /\ \E cls \in Classes, with_pool \in BOOLEAN, with_nsp \in BOOLEAN,
          with_mlm \in BOOLEAN, n \in 1..MaxLayers, e \in EmbeddingSizes,
          keep_tokens \in KeepTokenLists :
          /\ (e # 0 /\ n = 1) \/ keep_tokens = NoKeepTokens
          /\ self = Built(CkptConfig(cls, with_pool, with_nsp, with_mlm, n, e,
                                     keep_tokens))
    /\ weights = InitialWeights(self, 1)
    /\ files = ("published" :> Published(self))
    /\ fresh = << >>
    /\ pc = "built"
    /\ history = << >>
    /\ trace = << >>
    /\ args = NoBuildArgs
    /\ frame = NoFrame
    /\ NoMasks

\* build_transformer_model: transformer.load_weights_from_checkpoint(
\* checkpoint_path)
Load_weights_from_checkpoint ==
    /\ pc = "built"
    /\ LET loaded == load_weights_from_checkpoint(self, weights, files["published"], NoMapping)
       IN  loaded.ok /\ weights' = loaded.weights
    /\ pc' = "loaded"
    /\ UNCHANGED <<self, history, trace, args, frame, maskVars, files, fresh>>

\* transformer.save_weights_as_checkpoint(filename)
Save_weights_as_checkpoint ==
    /\ pc \in {"built", "loaded"}
    /\ files' = ("saved" :> save_weights_as_checkpoint(self, weights)) @@ files
    /\ pc' = "saved"
    /\ UNCHANGED <<self, history, trace, args, frame, maskVars, weights, fresh>>

\* A model of the same configuration is built, with initial weights of its
\* own, and loads the saved checkpoint.
Reload ==
    /\ pc = "saved"
    /\ LET loaded == load_weights_from_checkpoint(self, InitialWeights(self, 2),
                                                  files["saved"], NoMapping)
       IN  loaded.ok /\ fresh' = loaded.weights
    /\ pc' = "reloaded"
    /\ UNCHANGED <<self, history, trace, args, frame, maskVars, weights, files>>

\* The same, when reading a variable raises: the new model keeps the weights
\* it was built with.
Reload_raise ==
    /\ pc = "saved"
    /\ ~load_weights_from_checkpoint(self, InitialWeights(self, 2),
                                     files["saved"], NoMapping).ok
    /\ fresh' = InitialWeights(self, 2)
    /\ pc' = "raised"
    /\ UNCHANGED <<self, history, trace, args, frame, maskVars, weights, files>>

\* the first and the last variable a mapping names
Ends(mapping) ==
    {mapping[1].variables[1],
     mapping[Len(mapping)].variables[Len(mapping[Len(mapping)].variables)]}

\* what a load call was given, what it found and what it left
LoadRecord(checkpoint, mapping, before, loaded) ==
    [checkpoint |-> checkpoint, mapping |-> mapping, before |-> before,
     ok |-> loaded.ok, after |-> loaded.weights]

\* transformer.load_weights_from_checkpoint(path) on a checkpoint that lacks
\* a variable of the mapping
Load_incomplete ==
    /\ pc = "built"
    /\ \E name \in Ends(variable_mapping(self)) :
          LET checkpoint == [v \in DOMAIN files["published"] \ {name} |->
                                files["published"][v]]
              loaded == load_weights_from_checkpoint(self, weights, checkpoint,
                                                     NoMapping)
          IN  /\ weights' = loaded.weights
              /\ history' = <<LoadRecord(checkpoint, variable_mapping(self),
                                         weights, loaded)>>
              /\ pc' = IF loaded.ok THEN "loaded" ELSE "load_raised"
    /\ UNCHANGED <<self, trace, args, frame, maskVars, files, fresh>>

\* transformer.load_weights_from_checkpoint(path, mapping) with the mapping
\* of every layer a BERT model can have, heads included
Load_with_mapping ==
    /\ pc = "built"
    /\ LET mapping == BERT_mapping_blocks(self, BERT_mapping_heads, 0)
           loaded == load_weights_from_checkpoint(self, weights,
                                                  files["published"], mapping)
       IN  /\ weights' = loaded.weights
           /\ history' = <<LoadRecord(files["published"], mapping, weights, loaded)>>
           /\ pc' = IF loaded.ok THEN "loaded_mapping" ELSE "load_raised"
    /\ UNCHANGED <<self, trace, args, frame, maskVars, files, fresh>>

NextCkpt ==
    \/ Load_weights_from_checkpoint
    \/ Load_incomplete
    \/ Load_with_mapping
    \/ Save_weights_as_checkpoint
    \/ Reload
    \/ Reload_raise

SpecCkpt == InitCkpt /\ [][NextCkpt]_vars

\* the names of the layers the nodes of the graph apply
AppliedLayers == {self.nodes[k].layer : k \in DOMAIN self.nodes}

\* the keys of a mapping
Keys(mapping) == {mapping[i].layer : i \in DOMAIN mapping}

\* the layers a build leaves out: the heads, the embedding mapping, the
\* position embedding, and the blocks under the names of the other classes
OptionalLayers ==
    {"Pooler-Dense", "NSP-Proba", "MLM-Dense", "MLM-Norm", "MLM-Proba",
     "Embedding-Mapping", "Embedding-Position"}
    \cup Keys(ALBERT_mapping_block("Transformer-MultiHeadSelfAttention",
                                   "Transformer-FeedForward"))
    \cup UNION {Keys(BERT_mapping_block(i)) : i \in 0..MaxLayers}

\* C12: every key of variable_mapping() names a layer of the built graph,
\* under one item only; a head that was not built, an absent
\* Embedding-Mapping or Embedding-Position and a block name the graph does
\* not use have no item.
C12_MappingWithinGraph ==
    LET mapping == variable_mapping(self)
    IN  /\ \A i \in DOMAIN mapping :
              /\ mapping[i].layer \in AppliedLayers
              /\ mapping[i].layer \in self.model.layers
              /\ mapping[i].layer \in DOMAIN self.layers
              /\ \A j \in DOMAIN mapping : mapping[j].layer = mapping[i].layer => j = i
        /\ \A name \in OptionalLayers :
              name \notin AppliedLayers => name \notin Keys(mapping)

\* A NEZHA model without heads and without Embedding-Mapping has loaded the
\* checkpoint: its mapping has items, none for a layer that was left out.
C12_Witness ==
    /\ pc = "loaded"
    /\ self.cls = "nezha"
    /\ {"Pooler-Dense", "NSP-Proba", "MLM-Dense", "MLM-Norm", "MLM-Proba",
        "Embedding-Mapping", "Embedding-Position"} \cap AppliedLayers = {}
    /\ "Embedding-Token" \in Keys(variable_mapping(self))
    /\ Keys(variable_mapping(self)) \cap OptionalLayers
          = UNION {Keys(BERT_mapping_block(i)) : i \in 0..(self.num_hidden_layers - 1)}

\* the variable names a mapping lists
Variables(mapping) ==
    UNION {{mapping[i].variables[k] : k \in DOMAIN mapping[i].variables} :
              i \in DOMAIN mapping}

\* C13: an ALBERT_Unshared model is built as the BERT model of the same
\* configuration is, layer for layer and node for node; its mapping gives
\* the four layers of every block the variable lists ALBERT gives its shared
\* layers, the same for every block, and names no per-block BERT variable.
C13_UnsharedSharedNames ==
    (self.cls = "albert_unshared") =>
        LET mapping == variable_mapping(self)
            shared == ALBERT_mapping_block("Transformer-MultiHeadSelfAttention",
                                           "Transformer-FeedForward")
        IN  /\ [self EXCEPT !.cls = "bert"] =
                   Built(CkptConfig("bert", self.with_pool, self.with_nsp,
                                    self.with_mlm, self.num_hidden_layers,
                                    self.embedding_size, self.keep_tokens))
            /\ \A i \in 0..(self.num_hidden_layers - 1) : \A k \in 1..4 :
                  /\ BERT_mapping_block(i)[k].layer \in Keys(mapping)
                  /\ ItemOf(mapping, BERT_mapping_block(i)[k].layer).variables
                         = shared[k].variables
            /\ \A i \in 0..MaxLayers :
                  Variables(mapping) \cap Variables(BERT_mapping_block(i)) = {}
            /\ Keys(mapping) \cap Keys(shared) = {}

\* An ALBERT_Unshared model with two blocks has loaded the published
\* checkpoint: both blocks' attention layers are mapped to one variable list.
C13_Witness ==
    /\ pc = "loaded"
    /\ self.cls = "albert_unshared"
    /\ self.num_hidden_layers = 2
    /\ LET mapping == variable_mapping(self)
       IN  /\ {"Transformer-0-MultiHeadSelfAttention",
               "Transformer-1-MultiHeadSelfAttention"} \subseteq Keys(mapping)
           /\ ItemOf(mapping, "Transformer-0-MultiHeadSelfAttention").variables
                 = ItemOf(mapping, "Transformer-1-MultiHeadSelfAttention").variables
    /\ weights["Transformer-0-MultiHeadSelfAttention"]
          = weights["Transformer-1-MultiHeadSelfAttention"]

\* a load call was given a mapping that names a variable the checkpoint
\* lacks or a layer the model lacks
Unresolvable(r) ==
    \E i \in DOMAIN r.mapping :
        \/ r.mapping[i].layer \notin self.model.layers
        \/ \E k \in DOMAIN r.mapping[i].variables :
              r.mapping[i].variables[k] \notin DOMAIN r.checkpoint

\* C11: a load whose mapping names a variable absent from the checkpoint or
\* a layer absent from the model raises and leaves every weight as it was;
\* a load that returns has set the weights of every mapped layer to the
\* values read for them, all in the one assignment after the loop.
C11_LoadAllOrNothing ==
    (history # << >>) =>
        LET r == history[1]
        IN  /\ Unresolvable(r) =>
                ~r.ok /\ r.after = r.before /\ weights = r.before
                      /\ pc = "load_raised"
            /\ r.ok =>
                /\ weights = r.after
                /\ \A i \in DOMAIN r.mapping :
                      \A k \in 1..Zipped(r.mapping[i], r.before) :
                          r.after[r.mapping[i].layer][k] =
                              load_variable(self, r.checkpoint,
                                            r.mapping[i].variables[k]).value
            /\ r.ok \/ r.after = r.before

\* A load raised on a checkpoint that lacks the last variable of the
\* mapping, after every earlier variable had been read.
C11_Witness ==
    /\ pc = "load_raised"
    /\ history # << >>
    /\ \E i \in DOMAIN history[1].mapping :
          /\ i > 1
          /\ \E k \in DOMAIN history[1].mapping[i].variables :
                history[1].mapping[i].variables[k] \notin DOMAIN history[1].checkpoint
          /\ \A j \in 1..(i - 1) :
                /\ history[1].mapping[j].layer \in self.model.layers
                /\ \A k \in DOMAIN history[1].mapping[j].variables :
                      history[1].mapping[j].variables[k] \in DOMAIN history[1].checkpoint

\* C9: with a kept-token-id list of length K the model's vocabulary size is
\* K and the loaded token-embedding matrix has exactly K rows, row r being
\* row keep_tokens[r] of the checkpoint's matrix; with no list the matrix is
\* the checkpoint's.
C9_KeepTokens ==
    (pc = "loaded" /\ history = << >>) =>
        IF self.keep_tokens.given
        THEN /\ self.vocab_size = Len(self.keep_tokens.ids)
             /\ Len(weights["Embedding-Token"][1]) = Len(self.keep_tokens.ids)
             /\ \A r \in DOMAIN self.keep_tokens.ids :
                    weights["Embedding-Token"][1][r] =
                        files["published"]["bert/embeddings/word_embeddings"]
                             [self.keep_tokens.ids[r] + 1]
        ELSE weights["Embedding-Token"][1] =
                 files["published"]["bert/embeddings/word_embeddings"]

\* A checkpoint was loaded under a list that repeats an id, is longer than
\* the checkpoint's vocabulary and is not in row order.
C9_Witness ==
    /\ pc = "loaded" /\ history = << >>
    /\ self.keep_tokens.given
    /\ Len(self.keep_tokens.ids) > Len(files["published"]["bert/embeddings/word_embeddings"])
    /\ \E r, q \in DOMAIN self.keep_tokens.ids :
           /\ r < q
           /\ self.keep_tokens.ids[r] = self.keep_tokens.ids[q]
           /\ weights["Embedding-Token"][1][r] = weights["Embedding-Token"][1][q]
    /\ \E r \in DOMAIN self.keep_tokens.ids : self.keep_tokens.ids[r] # r - 1

\* C10 as stated: saving a built model's weights and loading the checkpoint
\* into a new model of the same configuration succeeds and leaves every
\* mapped parameter of the new model equal to that of the saved model.
C10_RoundTrip ==
    /\ pc # "raised"
    /\ (pc = "reloaded") =>
          LET mapping == variable_mapping(self)
          IN  \A i \in DOMAIN mapping : \A k \in 1..Zipped(mapping[i], weights) :
                  fresh[mapping[i].layer][k] = weights[mapping[i].layer][k]

=============================================================================
